---- MODULE Spec2Model ----
(***************************************************************************)
(* A model of gitdata: the GitHub fetcher (repository check, recursive     *)
(* directory walk, retrying HTTP GET), the per-ticker CSV processor and    *)
(* the command line run loop that drives them.                             *)
(*                                                                         *)
(* Strings the code inspects (file names, ticker values) are tuples of     *)
(* one-character strings, so that lower(), endswith() and the path         *)
(* separator are computed and not assumed.                                 *)
(***************************************************************************)
EXTENDS Integers, Sequences, FiniteSets, TLC

VARIABLES
    tree,            \* the repository served by the API: node -> [type, name]
    pc,              \* where gitdata_cli is: check, walk, loop, done, nofiles, error
    req,             \* the _make_request call in flight (or just finished)
    todo,            \* directory items of the walk not yet looked at, in DFS order
    csv_files,       \* the descriptors collected by the walk
    i,               \* 1-based position of the run loop in csv_files
    files,           \* save_dir: ticker -> lines of <ticker>.csv (<<>>: no file)
    result,          \* what the last process_csv_file call returned
    total_processed,
    total_errors,
    ticker_stats,    \* ticker -> number of files counted for it (0: no key)
    out,             \* the messages printed so far
    hist             \* history: requests started, retries exhausted, files written

vars == <<tree, pc, req, todo, csv_files, i, files, result,
          total_processed, total_errors, ticker_stats, out, hist>>

-----------------------------------------------------------------------------
(* Bounds of the model *)

\* Nodes of the repository tree below the root.
MaxNodes == 3

\* Data rows served over one run, all downloaded files together.
MaxRows == 2

(* Program constants *)

max_retries == 3

rate_limit_wait == 60

retry_wait == 2

-----------------------------------------------------------------------------
(* Helpers on sequences *)

Range(s) == {s[k] : k \in 1..Len(s)}

IsPrefix(s, t) == Len(s) <= Len(t) /\ SubSeq(t, 1, Len(s)) = s

Min(S) == CHOOSE x \in S : \A y \in S : x <= y

RECURSIVE SeqsUpTo(_, _)
SeqsUpTo(S, n) ==
    IF n = 0 THEN {<<>>}
    ELSE LET shorter == SeqsUpTo(S, n - 1)
         IN  shorter \cup {Append(s, x) : s \in {t \in shorter : Len(t) = n - 1}, x \in S}

-----------------------------------------------------------------------------
(* Names: str.lower() and str.endswith('.csv') *)

LowerChar(c) ==
    CASE c = "C" -> "c"
      [] c = "S" -> "s"
      [] c = "V" -> "v"
      [] OTHER   -> c

Lower(name) == [k \in 1..Len(name) |-> LowerChar(name[k])]

EndsWith(name, suffix) ==
    /\ Len(suffix) <= Len(name)
    /\ SubSeq(name, Len(name) - Len(suffix) + 1, Len(name)) = suffix

DotCsv == <<".", "c", "s", "v">>

\* The suffix compared without lower().
IsCsvItem_CaseSensitive(item) == item.type = "file" /\ EndsWith(item.name, DotCsv)

\* item['type'] == 'file' and item['name'].lower().endswith('.csv')
IsCsvItem(item) == item.type = "file" /\ EndsWith(Lower(item.name), DotCsv)

-----------------------------------------------------------------------------
(* The repository: a tree of files and directories *)

Root == 0

Nodes == 1..MaxNodes

Parent(n) == (n - 1) \div 2

FileSuffixes == {DotCsv, <<".", "C", "S", "V">>, <<".", "t", "x", "t">>, <<"c", "s", "v">>}

DirSuffixes == {<<>>, DotCsv}

NodeName(n, suffix) == <<ToString(n)>> \o suffix

Absent == [type |-> "none", name |-> <<>>]

ItemsAt(n) ==
    {Absent}
        \cup {[type |-> "file", name |-> NodeName(n, s)] : s \in FileSuffixes}
        \cup {[type |-> "dir", name |-> NodeName(n, s)] : s \in DirSuffixes}

IsDir(t, n) == n = Root \/ t[n].type = "dir"

\* A node exists only inside a directory.
Trees ==
    {t \in [Nodes -> UNION {ItemsAt(n) : n \in Nodes}] :
        \A n \in Nodes :
            /\ t[n] \in ItemsAt(n)
            /\ ~IsDir(t, Parent(n)) => t[n] = Absent}

\* The trees of the whole-run specification: plain directories and .csv files.
RunItemsAt(n) ==
    {Absent, [type |-> "file", name |-> NodeName(n, DotCsv)], [type |-> "dir", name |-> NodeName(n, <<>>)]}

RunTrees == {t \in Trees : \A n \in Nodes : t[n] \in RunItemsAt(n)}

\* The trees of the processing specification: .csv files in the root directory.
FlatTrees == {t \in RunTrees : \A n \in Nodes : t[n].type # "dir"}

RECURSIVE Path(_, _)
Path(t, n) == IF n = Root THEN <<>> ELSE Append(Path(t, Parent(n)), t[n].name)

RECURSIVE ChildrenFrom(_, _, _)
ChildrenFrom(t, d, n) ==
    IF n > MaxNodes THEN <<>>
    ELSE IF Parent(n) = d /\ t[n] # Absent
         THEN <<n>> \o ChildrenFrom(t, d, n + 1)
         ELSE ChildrenFrom(t, d, n + 1)

\* The items the contents API lists for directory d, in listing order.
Contents(t, d) == ChildrenFrom(t, d, 1)

\* The descriptor the walk keeps of a file item.
Descriptor(t, n) ==
    [name |-> t[n].name, path |-> Path(t, n), download_url |-> n]

-----------------------------------------------------------------------------
(* GitHubFetcher._make_request: one HTTP GET per loop iteration *)

\* What session.get can do: answer with a status code (a 403 may carry the
\* rate limit text), or raise Timeout or another RequestException.
Outcomes ==
    {[exc |-> "none", status |-> 200, rate_limit |-> FALSE],
     [exc |-> "none", status |-> 404, rate_limit |-> FALSE],
     [exc |-> "none", status |-> 403, rate_limit |-> FALSE],
     [exc |-> "none", status |-> 403, rate_limit |-> TRUE],
     [exc |-> "Timeout", status |-> 0, rate_limit |-> FALSE],
     [exc |-> "ConnectionError", status |-> 0, rate_limit |-> FALSE]}

\* if response.status_code == 403 and 'rate limit' in response.text.lower()
RateLimited(o) == o.exc = "none" /\ o.status = 403 /\ o.rate_limit

\* How the loop body takes a GET outcome: both except clauses act alike.
Kind(o) ==
    IF o.exc # "none" THEN "request error"
    ELSE IF RateLimited(o) THEN "rate limit"
    ELSE "response"

\* A call of _make_request that has not made its first GET.
NewRequest(stage, node) ==
    [stage |-> stage, node |-> node, attempt |-> 0, gets |-> 0,
     sleeps |-> <<>>, ret |-> "pending", status |-> 0, last |-> "none"]

NoRequest == [NewRequest("none", Root) EXCEPT !.ret = "none"]

\* Off by one: a retry is allowed on the last attempt too.
MayRetry_OffByOne(attempt) == attempt < max_retries

\* if attempt < max_retries - 1
MayRetry(attempt) == attempt < max_retries - 1

\* time.sleep(wait); continue -- and the raise after the loop when it runs out
SleepAndContinue(r, o, wait) ==
    LET slept == [r EXCEPT !.gets = @ + 1, !.last = Kind(o),
                           !.sleeps = Append(@, wait), !.attempt = @ + 1]
    IN  IF slept.attempt < max_retries
        THEN slept
        ELSE [slept EXCEPT !.ret = "Exception"]

\* The body of the retry loop for the GET outcome o.
RequestStep(r, o) ==
    IF o.exc = "none"
    THEN IF RateLimited(o)
         THEN IF MayRetry(r.attempt)
              THEN SleepAndContinue(r, o, rate_limit_wait)
              ELSE [r EXCEPT !.gets = @ + 1, !.last = Kind(o), !.ret = "Exception"]
         ELSE [r EXCEPT !.gets = @ + 1, !.last = Kind(o),
                        !.ret = "response", !.status = o.status]
    ELSE IF MayRetry(r.attempt)
         THEN SleepAndContinue(r, o, retry_wait)
         ELSE [r EXCEPT !.gets = @ + 1, !.last = Kind(o), !.ret = "RequestException"]

make_request ==
    /\ req.ret = "pending"
    /\ \E o \in Outcomes : req' = RequestStep(req, o)
    /\ UNCHANGED <<tree, pc, todo, csv_files, i, files, result,
                   total_processed, total_errors, ticker_stats, out, hist>>

\* The request has returned a response or raised.
Finished(r) == r.ret \in {"response", "Exception", "RequestException"}

Exhausted(r) == r.ret \in {"Exception", "RequestException"}

-----------------------------------------------------------------------------
(* Messages and history *)

NoTicker == ""

\* A printed message: its kind, the number and the text it carries.
Msg(kind, n, text) == [kind |-> kind, n |-> n, text |-> text]

\* History kept beside the program's state: the requests started, the
\* requests that ran out of retries, the directories whose listing gave no
\* contents, the status of the repository check, the tickers written to and
\* the rows served in this run, and the last process_csv_file call (its
\* number, the files before it, the payload it read).
NoHistory ==
    [requests |-> <<>>, exhausted |-> {}, unlisted |-> {}, repo_status |-> 0,
     written |-> {}, served |-> 0, calls |-> 0,
     before |-> [t \in {"A", "B", "A/B", "NaN"} |-> <<>>],
     downloaded |-> FALSE, payload |-> [header |-> <<>>, rows |-> <<>>]]

\* History of a request being started.
Started(h, stage, node) ==
    [h EXCEPT !.requests = Append(@, [stage |-> stage, node |-> node])]

\* History of the request r having finished.
Ended(h, r) ==
    [h EXCEPT
        !.exhausted = IF Exhausted(r)
                      THEN @ \cup {[stage |-> r.stage, node |-> r.node, exc |-> r.ret]}
                      ELSE @,
        !.unlisted = IF r.stage = "contents" /\ ~(r.ret = "response" /\ r.status = 200)
                     THEN @ \cup {r.node}
                     ELSE @,
        !.repo_status = IF r.stage = "repo" /\ r.ret = "response" THEN r.status ELSE @]

-----------------------------------------------------------------------------
(* The CSV payloads a download can return *)

\* self.ticker_columns
ticker_columns == <<"symbol", "ticker", "Symbol", "Ticker", "SYMBOL", "TICKER">>

\* Header rows: each candidate alone, no candidate, and two candidates together.
Headers ==
    {<<c, "close">> : c \in Range(ticker_columns)}
        \cup {<<"name", "close">>, <<"symbol", "ticker">>,
              <<"Ticker", "symbol">>, <<"ticker", "Symbol">>}

\* Cell texts of the first and of the second column ("" is an empty cell).
FirstCells == {"A", "B", "", "A/B"}

SecondCells == {"B"}

RowTexts == {<<a, b>> : a \in FirstCells, b \in SecondCells}

\* A zero-byte payload: pandas raises EmptyDataError on it.
EmptyContent == [header |-> <<>>, rows |-> <<>>]

Payloads(n) ==
    {EmptyContent} \cup {[header |-> h, rows |-> rs] : h \in Headers, rs \in SeqsUpTo(RowTexts, n)}

\* The payloads of the whole-run specification: a ticker column or none,
\* rows of the tickers A and B.
RunHeaders == {<<"symbol", "close">>, <<"name", "close">>}

RunRowTexts == {<<"A", "B">>, <<"B", "B">>}

RunPayloads(n) ==
    {EmptyContent} \cup {[header |-> h, rows |-> rs] : h \in RunHeaders, rs \in SeqsUpTo(RunRowTexts, n)}

-----------------------------------------------------------------------------
(* pandas: read_csv, groupby, to_csv *)

NaN == "NaN"

\* read_csv turns an empty cell (and the text NaN) into a missing value.
ReadCell(text) == IF text \in {"", "NaN"} THEN NaN ELSE text

\* to_csv writes a missing value as an empty cell.
WriteCell(value) == IF value = NaN THEN "" ELSE value

\* pd.read_csv(StringIO(csv_content)): columns, and rows under a 0-based RangeIndex
read_csv(p) ==
    [columns |-> p.header,
     rows |-> [k \in 1..Len(p.rows) |->
                 [index |-> k - 1,
                  cells |-> [j \in 1..Len(p.rows[k]) |-> ReadCell(p.rows[k][j])]]]]

\* df.empty
IsEmpty(df) == Len(df.columns) = 0 \/ Len(df.rows) = 0

\* The sort order groupby gives the group keys (string order).
KeyOrder == <<"A", "A/B", "B", NaN>>

\* groupby drops the rows whose key is missing (dropna=True).
GroupKeys(df, col) ==
    SelectSeq(KeyOrder, LAMBDA key : key # NaN /\ \E k \in 1..Len(df.rows) : df.rows[k].cells[col] = key)

\* The rows of one group, in the order of the frame.
GroupRows(df, col, key) == SelectSeq(df.rows, LAMBDA r : r.cells[col] = key)

\* Positions of the columns labelled name.
Labelled(columns, name) == {j \in 1..Len(columns) : columns[j] = name}

\* ticker_df.drop(columns=['ticker']) on a sequence of cells or labels
Drop(cells, col) == [j \in 1..Len(cells) - 1 |-> IF j < col THEN cells[j] ELSE cells[j + 1]]

\* to_csv(output_file): the header line (empty index label), then the rows
HeaderLine(columns, col) == <<"">> \o Drop(columns, col)

RowLine(r, col) == <<ToString(r.index)>> \o [j \in 1..Len(r.cells) - 1 |-> WriteCell(Drop(r.cells, col)[j])]

RowLines(rows, col) == [k \in 1..Len(rows) |-> RowLine(rows[k], col)]

-----------------------------------------------------------------------------
(* save_dir *)

FileStems == {"A", "B", "A/B", NaN}

\* os.path.join(save_dir, f"{ticker}.csv") names a file directly in save_dir
\* unless the ticker holds a path separator; save_dir has no subdirectories.
InSaveDir(ticker) == ticker # "A/B"

NoFiles == [t \in FileStems |-> <<>>]

\* os.path.exists(output_file)
Exists(fs, ticker) == fs[ticker] # <<>>

\* The file opened for writing whether or not it exists.
to_csv_Overwrite(fs, ticker, columns, rows, col) ==
    [fs EXCEPT ![ticker] = <<HeaderLine(columns, col)>> \o RowLines(rows, col)]

\* to_csv(mode='a', header=False) on an existing file, to_csv() on a new one
to_csv(fs, ticker, columns, rows, col) ==
    IF Exists(fs, ticker)
    THEN [fs EXCEPT ![ticker] = @ \o RowLines(rows, col)]
    ELSE [fs EXCEPT ![ticker] = <<HeaderLine(columns, col)>> \o RowLines(rows, col)]

-----------------------------------------------------------------------------
(* DataProcessor *)

NoColumn == ""

\* The first name of ticker_columns, in list order, that is a column.
TickerColumn(columns) ==
    LET found == {k \in 1..Len(ticker_columns) : ticker_columns[k] \in Range(columns)}
    IN  IF found = {} THEN NoColumn ELSE ticker_columns[Min(found)]

\* df.rename(columns={ticker_col: 'ticker'})
Rename(columns, ticker_col) ==
    [j \in 1..Len(columns) |-> IF columns[j] = ticker_col THEN "ticker" ELSE columns[j]]

\* _clean_dataframe: None (ok FALSE) without a ticker column
clean_dataframe(df) ==
    LET ticker_col == TickerColumn(df.columns)
    IN  IF ticker_col = NoColumn
        THEN [ok |-> FALSE, df |-> df]
        ELSE [ok |-> TRUE, df |-> [df EXCEPT !.columns = Rename(@, ticker_col)]]

\* The loop without its try: the first group whose file cannot be written
\* raises out of _process_tickers, after the groups before it were written.
RECURSIVE SaveGroups_NoTry(_, _, _, _, _, _)
SaveGroups_NoTry(keys, df, col, fs, results, failed) ==
    IF keys = <<>>
    THEN [raised |-> FALSE, files |-> fs, results |-> results, failed |-> failed]
    ELSE LET ticker == Head(keys)
             ticker_df == GroupRows(df, col, ticker)
         IN  IF ticker # "A/B"
             THEN SaveGroups_NoTry(Tail(keys), df, col,
                                   [fs EXCEPT ![ticker] =
                                       (IF @ = <<>> THEN <<HeaderLine(df.columns, col)>> ELSE @)
                                           \o RowLines(ticker_df, col)],
                                   Append(results, [ticker |-> ticker,
                                                    rows_processed |-> Len(ticker_df),
                                                    duplicates_removed |-> 0]),
                                   failed)
             ELSE [raised |-> TRUE, files |-> fs, results |-> results, failed |-> failed]

\* The loop of _process_tickers over the groups: a group whose file cannot
\* be written is reported and left out of the results.
RECURSIVE SaveGroups(_, _, _, _, _, _)
SaveGroups(keys, df, col, fs, results, failed) ==
    IF keys = <<>>
    THEN [raised |-> FALSE, files |-> fs, results |-> results, failed |-> failed]
    ELSE LET ticker == Head(keys)
             ticker_df == GroupRows(df, col, ticker)
         IN  IF InSaveDir(ticker)
             THEN SaveGroups(Tail(keys), df, col,
                             to_csv(fs, ticker, df.columns, ticker_df, col),
                             Append(results, [ticker |-> ticker,
                                              rows_processed |-> Len(ticker_df),
                                              duplicates_removed |-> 0]),
                             failed)
             ELSE SaveGroups(Tail(keys), df, col, fs, results, Append(failed, ticker))

\* _process_tickers: df.groupby('ticker') raises when the label is not unique
process_tickers(df, fs) ==
    LET cols == Labelled(df.columns, "ticker")
    IN  IF Cardinality(cols) # 1
        THEN [raised |-> TRUE, files |-> fs, results |-> <<>>, failed |-> <<>>]
        ELSE LET col == CHOOSE j \in cols : TRUE
             IN  SaveGroups(GroupKeys(df, col), df, col, fs, <<>>, <<>>)

NoResult ==
    [success |-> FALSE, ticker |-> NoTicker, rows_processed |-> 0,
     duplicates_removed |-> 0, error |-> "none", cause |-> "none"]

Failure(error, cause) == [NoResult EXCEPT !.error = error, !.cause = cause]

\* if not results ... else the first ticker's info
Outcome(results) ==
    IF results = <<>>
    THEN Failure("No valid ticker data found", "none")
    ELSE [NoResult EXCEPT !.success = TRUE,
                          !.ticker = results[1].ticker,
                          !.rows_processed = results[1].rows_processed,
                          !.duplicates_removed = results[1].duplicates_removed]

\* download_csv_content: the text of a 200 response; anything else raises
Downloaded(r) == r.ret = "response" /\ r.status = 200

\* process_csv_file for the finished download r that served payload p:
\* the result returned, the files of save_dir and the tickers warned about.
process_csv_file(r, p, fs) ==
    IF ~Downloaded(r)
    THEN [result |-> Failure("Error processing", "download"), files |-> fs, failed |-> <<>>]
    ELSE IF p = EmptyContent
    THEN [result |-> Failure("Error processing", "read_csv"), files |-> fs, failed |-> <<>>]
    ELSE LET df == read_csv(p)
             cleaned == clean_dataframe(df)
             saved == process_tickers(cleaned.df, fs)
         IN  IF IsEmpty(df)
             THEN [result |-> Failure("is empty", "none"), files |-> fs, failed |-> <<>>]
             ELSE IF ~cleaned.ok \/ IsEmpty(cleaned.df)
             THEN [result |-> Failure("no valid data after cleaning", "none"),
                   files |-> fs, failed |-> <<>>]
             ELSE IF saved.raised
             THEN [result |-> Failure("Error processing", "groupby"),
                   files |-> saved.files, failed |-> saved.failed]
             ELSE [result |-> Outcome(saved.results), files |-> saved.files,
                   failed |-> saved.failed]

-----------------------------------------------------------------------------
(* gitdata_cli and GitHubFetcher, from one blocking request to the next *)

\* The files a run may find in save_dir: none, or A.csv left by an earlier run.
InitialFiles == {NoFiles, [NoFiles EXCEPT !["A"] = <<<<"", "close">>, <<"0", "B">>>>]}

Init ==
    /\ tree \in RunTrees
    /\ pc = "check"
    /\ req = NewRequest("repo", Root)
    /\ todo = <<>>
    /\ csv_files = <<>>
    /\ i = 0
    /\ files \in InitialFiles
    /\ result = NoResult
    /\ total_processed = 0
    /\ total_errors = 0
    /\ ticker_stats = [t \in FileStems |-> 0]
    /\ out = <<>>
    /\ hist = Started(NoHistory, "repo", Root)

\* except Exception as e: click.echo("Unexpected error: ...")
UnexpectedError(text) ==
    /\ pc' = "error"
    /\ req' = NoRequest
    /\ out' = Append(out, Msg("Unexpected error", 0, text))
    /\ hist' = Ended(hist, req)
    /\ UNCHANGED <<tree, todo, csv_files, i, files, result,
                   total_processed, total_errors, ticker_stats>>

\* The 404 branch taken for a success.
RepoError_404Passes(r) ==
    CASE r.ret = "RequestException"  -> "Network error while accessing GitHub"
      [] r.ret = "Exception"         -> "GitHub API rate limit exceeded"
      [] r.status \notin {200, 404}  -> "Failed to access repository"
      [] OTHER                       -> ""

\* What fetch_csv_files raises after the repository check ("": nothing).
RepoError(r) ==
    CASE r.ret = "RequestException" -> "Network error while accessing GitHub"
      [] r.ret = "Exception"        -> "GitHub API rate limit exceeded"
      [] r.status = 404             -> "Repository not found or is not public"
      [] r.status # 200             -> "Failed to access repository"
      [] OTHER                      -> ""

\* fetch_csv_files once the repository check has returned or raised: an
\* error ends the run, a 200 starts the walk at the root directory.
fetch_csv_files ==
    /\ pc = "check"
    /\ Finished(req)
    /\ IF RepoError(req) # ""
       THEN UnexpectedError(RepoError(req))
       ELSE /\ pc' = "walk"
            /\ req' = NewRequest("contents", Root)
            /\ hist' = Started(Ended(hist, req), "contents", Root)
            /\ UNCHANGED <<tree, todo, csv_files, i, files, result,
                           total_processed, total_errors, ticker_stats, out>>

\* for item in contents: keep the CSV files, stop at the next directory.
RECURSIVE Scan(_, _, _)
Scan(t, items, found) ==
    IF items = <<>>
    THEN [more |-> FALSE, dir |-> Root, todo |-> <<>>, csv_files |-> found]
    ELSE LET n == Head(items)
         IN  IF IsCsvItem(t[n])
             THEN Scan(t, Tail(items), Append(found, Descriptor(t, n)))
             ELSE IF t[n].type = "dir"
             THEN [more |-> TRUE, dir |-> n, todo |-> Tail(items), csv_files |-> found]
             ELSE Scan(t, Tail(items), found)

\* The items a finished listing request adds in front of the walk: the
\* directory's contents on a 200, nothing on any other status or on a
\* RequestException.
Listed(t, r) ==
    IF r.ret = "response" /\ r.status = 200 THEN Contents(t, r.node) ELSE <<>>

\* The except clause returning without its print.
ListingWarning_Silent(r) == <<>>

\* except RequestException: print("Warning: Could not access directory ...")
ListingWarning(r) ==
    IF r.ret = "RequestException"
    THEN <<Msg("Warning: Could not access directory", r.node, "")>>
    ELSE <<>>

\* _get_csv_files_recursive once a listing request has returned or raised.
\* The rate limit Exception propagates out of the walk; when the walk is
\* over gitdata_cli reports the files found and starts on the first.
get_csv_files_recursive ==
    /\ pc = "walk"
    /\ Finished(req)
    /\ IF req.ret = "Exception"
       THEN UnexpectedError("GitHub API rate limit exceeded")
       ELSE \E s \in {Scan(tree, Listed(tree, req) \o todo, csv_files)} :
            LET warned == out \o ListingWarning(req)
            IN  /\ todo' = s.todo
                /\ csv_files' = s.csv_files
                /\ IF s.more
                   THEN /\ pc' = "walk"
                        /\ req' = NewRequest("contents", s.dir)
                        /\ hist' = Started(Ended(hist, req), "contents", s.dir)
                        /\ out' = warned
                        /\ i' = i
                   ELSE IF s.csv_files = <<>>
                   THEN /\ pc' = "nofiles"
                        /\ req' = NoRequest
                        /\ hist' = Ended(hist, req)
                        /\ out' = Append(warned, Msg("No CSV files found", 0, ""))
                        /\ i' = i
                   ELSE /\ pc' = "loop"
                        /\ req' = NewRequest("download", s.csv_files[1].download_url)
                        /\ hist' = Started(Ended(hist, req), "download", s.csv_files[1].download_url)
                        /\ out' = Append(warned, Msg("Found CSV files", Len(s.csv_files), ""))
                        /\ i' = 1
                /\ UNCHANGED <<tree, files, result, total_processed, total_errors, ticker_stats>>

\* The tickers whose file a process_csv_file call wrote to.
Written(before, after) == {t \in FileStems : before[t] # after[t]}

\* The messages of one pass of the run loop: the warnings of the processor,
\* then "Processed <ticker>" or "Skipped: <error>".
LoopMessages(k, done) ==
    [j \in 1..Len(done.failed) |-> Msg("Warning: Error processing ticker", k, done.failed[j])]
        \o (IF done.result.error = "no valid data after cleaning"
            THEN <<Msg("Warning: missing ticker/symbol column", k, "")>>
            ELSE <<>>)
        \o (IF done.result.success
            THEN <<Msg("Processed", k, done.result.ticker)>>
            ELSE <<Msg("Skipped", k, done.result.error)>>)

\* total_processed += 1 on success, total_errors += 1 otherwise
CountProcessed(res, n) == IF res.success THEN n + 1 ELSE n

\* A failed download left out of the count.
CountErrors_DownloadUncounted(res, n) ==
    IF res.success \/ res.cause = "download" THEN n ELSE n + 1

CountErrors(res, n) == IF res.success THEN n ELSE n + 1

\* ticker_stats[ticker]['files'] += 1 for the ticker the result names
CountTicker(res, stats) ==
    IF res.success THEN [stats EXCEPT ![res.ticker] = @ + 1] ELSE stats

\* The three counts of the processing summary.
Summary(processed, skipped, stats) ==
    <<Msg("Files processed", processed, ""),
      Msg("Files skipped", skipped, ""),
      Msg("Tickers saved", Cardinality({t \in FileStems : stats[t] > 0}), "")>>

\* One pass of the run loop of gitdata_cli once the download of csv_files[i]
\* has returned or raised: process the file, count it, then start the next
\* download or print the summary.
run_loop(payloads) ==
    /\ pc = "loop"
    /\ Finished(req)
    /\ \E p \in (IF Downloaded(req) THEN payloads ELSE {EmptyContent}) :
          \E done \in {process_csv_file(req, p, files)} :
          LET processed == CountProcessed(done.result, total_processed)
              skipped == CountErrors(done.result, total_errors)
              stats == CountTicker(done.result, ticker_stats)
              printed == out \o LoopMessages(i, done)
              h == [Ended(hist, req) EXCEPT !.written = @ \cup Written(files, done.files),
                                            !.served = @ + Len(p.rows),
                                            !.calls = @ + 1,
                                            !.before = files,
                                            !.downloaded = Downloaded(req),
                                            !.payload = p]
          IN  /\ files' = done.files
              /\ result' = done.result
              /\ total_processed' = processed
              /\ total_errors' = skipped
              /\ ticker_stats' = stats
              /\ IF i < Len(csv_files)
                 THEN /\ i' = i + 1
                      /\ pc' = "loop"
                      /\ req' = NewRequest("download", csv_files[i + 1].download_url)
                      /\ hist' = Started(h, "download", csv_files[i + 1].download_url)
                      /\ out' = printed
                 ELSE /\ i' = i
                      /\ pc' = "done"
                      /\ req' = NoRequest
                      /\ hist' = h
                      /\ out' = printed \o Summary(processed, skipped, stats)
    /\ UNCHANGED <<tree, todo, csv_files>>

\* The whole run, on small payloads.
gitdata_cli == run_loop(RunPayloads(MaxRows - hist.served))

Next ==
    \/ make_request
    \/ fetch_csv_files
    \/ get_csv_files_recursive
    \/ gitdata_cli

Spec == Init /\ [][Next]_vars

\* The fetcher alone, on every tree: the repository check and the walk.
InitWalk ==
    /\ tree \in Trees
    /\ pc = "check"
    /\ req = NewRequest("repo", Root)
    /\ todo = <<>>
    /\ csv_files = <<>>
    /\ i = 0
    /\ files = NoFiles
    /\ result = NoResult
    /\ total_processed = 0
    /\ total_errors = 0
    /\ ticker_stats = [t \in FileStems |-> 0]
    /\ out = <<>>
    /\ hist = Started(NoHistory, "repo", Root)

NextWalk ==
    \/ make_request
    \/ fetch_csv_files
    \/ get_csv_files_recursive

SpecWalk == InitWalk /\ [][NextWalk]_vars

\* The processor alone, on every payload: the run loop over the files
\* found by a walk of a flat repository in which every request succeeded.
process_files == run_loop(Payloads(MaxRows - hist.served))

InitProcess ==
    /\ tree \in FlatTrees
    /\ csv_files = Scan(tree, Contents(tree, Root), <<>>).csv_files
    /\ csv_files # <<>>
    /\ pc = "loop"
    /\ req = NewRequest("download", csv_files[1].download_url)
    /\ todo = <<>>
    /\ i = 1
    /\ files \in InitialFiles
    /\ result = NoResult
    /\ total_processed = 0
    /\ total_errors = 0
    /\ ticker_stats = [t \in FileStems |-> 0]
    /\ out = <<Msg("Found CSV files", Len(csv_files), "")>>
    /\ hist = Started(Started(Started([NoHistory EXCEPT !.repo_status = 200], "repo", Root),
                              "contents", Root),
                      "download", csv_files[1].download_url)

NextProcess ==
    \/ make_request
    \/ process_files

SpecProcess == InitProcess /\ [][NextProcess]_vars

-----------------------------------------------------------------------------
(* Properties of the fetcher *)

\* C8: every call of _make_request makes at most max_retries GETs; while it
\* runs every GET so far failed and was followed by one sleep (60 s after a
\* rate limit answer, 2 s after a request error); it returns the first
\* response that is not a rate limit 403; once it has returned or raised it
\* has slept only between attempts, never after the last; and it raises
\* exactly when the last of max_retries attempts failed too.
C8_BoundedRetries ==
    /\ req.gets <= max_retries
    /\ \A k \in 1..Len(req.sleeps) : req.sleeps[k] \in {rate_limit_wait, retry_wait}
    /\ req.ret = "pending" =>
          /\ req.gets < max_retries
          /\ Len(req.sleeps) = req.gets
          /\ req.last # "response"
          /\ req.gets > 0 =>
                req.sleeps[req.gets] = (IF req.last = "rate limit" THEN rate_limit_wait ELSE retry_wait)
    /\ Finished(req) => req.gets >= 1 /\ Len(req.sleeps) = req.gets - 1
    /\ req.ret = "response" <=> req.last = "response"
    /\ Exhausted(req) <=> (req.gets = max_retries /\ req.last \in {"rate limit", "request error"})
    /\ req.ret = "Exception" => req.last = "rate limit"
    /\ req.ret = "RequestException" => req.last = "request error"

\* C8 witness: a call that was rate limited, slept 60 s, failed, slept 2 s
\* and raised on its third GET.
C8_Witness ==
    /\ req.ret = "RequestException"
    /\ req.gets = max_retries
    /\ req.sleeps = <<rate_limit_wait, retry_wait>>

\* Whether the name ends with .csv in any mix of cases, letter by letter.
HasCsvSuffix(name) ==
    /\ Len(name) >= 4
    /\ name[Len(name) - 3] = "."
    /\ name[Len(name) - 2] \in {"c", "C"}
    /\ name[Len(name) - 1] \in {"s", "S"}
    /\ name[Len(name)] \in {"v", "V"}

\* The files of the repository with a .csv suffix, at any depth.
CsvNodes == {n \in Nodes : tree[n].type = "file" /\ HasCsvSuffix(tree[n].name)}

RECURSIVE Ancestors(_)
Ancestors(n) == IF n = Root THEN {} ELSE {Parent(n)} \cup Ancestors(Parent(n))

\* fetch_csv_files has returned its list to gitdata_cli.
WalkReturned == pc \in {"loop", "nofiles", "done"}

\* The list holds one descriptor for each node of S and nothing else.
ListsExactly(S) ==
    /\ Range(csv_files) = {Descriptor(tree, n) : n \in S}
    /\ Len(csv_files) = Cardinality(S)

\* C6 as stated: whenever fetch_csv_files returns, its list holds exactly
\* one descriptor for each .csv file of the repository, at any depth, and
\* none for any other file or for a directory.
C6_WalkFindsEveryCsv == WalkReturned => ListsExactly(CsvNodes)

\* C6 amended: whenever fetch_csv_files returns, its list holds exactly one
\* descriptor for each .csv file all of whose enclosing directories were
\* listed with a 200, and none for any other file or for a directory; the
\* files below a directory whose listing gave another status or ran out of
\* retries on request errors are left out.
C6_WalkFindsListedCsv ==
    WalkReturned => ListsExactly({n \in CsvNodes : Ancestors(n) \cap hist.unlisted = {}})

\* C6 witness: a walk with every listing answered that found a .CSV file
\* two levels down, beside a directory and a file that are not CSV files.
C6_Witness ==
    /\ WalkReturned
    /\ hist.unlisted = {}
    /\ \E d \in Range(csv_files) : Len(d.path) = 2 /\ ~EndsWith(d.name, DotCsv)
    /\ \E n \in Nodes : tree[n].type = "file" /\ n \notin CsvNodes

\* C5: when the repository check returns 404 the run ends with the one
\* message that the repository was not found or is not public: no directory
\* listing and no download is requested and no output file is written.
C5_Repo404 ==
    hist.repo_status = 404 =>
        /\ pc = "error"
        /\ out = <<Msg("Unexpected error", 0, "Repository not found or is not public")>>
        /\ hist.requests = <<[stage |-> "repo", node |-> Root]>>
        /\ hist.calls = 0
        /\ hist.written = {}
        /\ files \in InitialFiles

\* C5 witness: the repository check answered 404 and the run ended with an
\* error, with A.csv left in save_dir by an earlier run.
C5_Witness == hist.repo_status = 404 /\ pc = "error" /\ Exists(files, "A")

\* The position in csv_files of the file downloaded from node n.
FileIndex(n) == CHOOSE k \in 1..Len(csv_files) : csv_files[k].download_url = n

\* C4: a request that ran out of retries is never absorbed silently: it
\* always leaves a message. The repository check, and a listing that ran
\* out on rate limit answers, end the run with an error message; a download
\* is reported as its file skipped with the error; a listing that ran out
\* on timeouts or other request errors is reported by a warning naming the
\* directory, whose contents the walk then goes without.
C4_ExhaustionReported ==
    \A e \in hist.exhausted :
        CASE e.stage = "download" ->
                Msg("Skipped", FileIndex(e.node), "Error processing") \in Range(out)
          [] e.stage = "contents" /\ e.exc = "RequestException" ->
                /\ Msg("Warning: Could not access directory", e.node, "") \in Range(out)
                /\ e.node \in hist.unlisted
          [] OTHER ->
                pc = "error" /\ out[Len(out)].kind = "Unexpected error"

\* C4 witness: a run that ended with its summary although the listing of a
\* subdirectory had run out of retries.
C4_Witness ==
    /\ pc = "done"
    /\ \E e \in hist.exhausted : e.stage = "contents" /\ e.node # Root

-----------------------------------------------------------------------------
(* Properties of the processor: the last process_csv_file call *)

\* A process_csv_file call has returned.
Called == hist.calls > 0

\* The call downloaded a payload that parsed.
Parsed == Called /\ hist.downloaded /\ hist.payload # EmptyContent

\* The candidate names among the columns of the payload.
Candidates == {c \in Range(ticker_columns) : c \in Range(hist.payload.header)}

\* The candidate that comes first in the list, and its position in the header.
FirstCandidate ==
    CHOOSE c \in Candidates :
        \A d \in Candidates :
            Min({k \in 1..Len(ticker_columns) : ticker_columns[k] = c})
                <= Min({k \in 1..Len(ticker_columns) : ticker_columns[k] = d})

TickerPosition == Min({j \in 1..Len(hist.payload.header) : hist.payload.header[j] = FirstCandidate})

\* The source rows of the payload, by position.
SourceRows == 1..Len(hist.payload.rows)

\* The ticker value of source row k ("" when the cell is empty).
TickerOf(k) == hist.payload.rows[k][TickerPosition]

\* The line of source row k in an output file: its 0-based index, then its
\* cells without the ticker.
LineOf(k) == <<ToString(k - 1)>> \o Drop(hist.payload.rows[k], TickerPosition)

\* The file a ticker value names (an empty cell reads as a missing value).
FileOf(text) == ReadCell(text)

\* What the call added at the end of <ticker>.csv.
Appended(t) == SubSeq(files[t], Len(hist.before[t]) + 1, Len(files[t]))

\* C1: after process_csv_file returns for a file that downloaded, parsed and
\* has a ticker column, every row of the file that has a ticker value X has
\* been written to X.csv and to no other output file. (The rows with an
\* empty ticker cell, which the claim also counts as not lost, are left
\* aside here.)
C1_EveryRowSaved ==
    (Parsed /\ Candidates # {}) =>
        \A k \in SourceRows :
            TickerOf(k) # "" =>
                /\ LineOf(k) \in Range(Appended(FileOf(TickerOf(k))))
                /\ \A t \in FileStems \ {FileOf(TickerOf(k))} : LineOf(k) \notin Range(Appended(t))

\* The lines of the source rows with ticker t, in the order of the payload.
RECURSIVE LinesFrom(_, _)
LinesFrom(k, t) ==
    IF k > Len(hist.payload.rows) THEN <<>>
    ELSE IF TickerOf(k) = t THEN <<LineOf(k)>> \o LinesFrom(k + 1, t)
    ELSE LinesFrom(k + 1, t)

\* C2: output files are append-only and nothing is deduplicated: what a
\* file held before a call is a prefix of what it holds after it; a file
\* the call wrote to gained, after a header line if it is new, one line
\* for every source row of its ticker, in the order of arrival, whether or
\* not an equal line was already there; every other file is unchanged.
C2_AppendOnly ==
    Called =>
        \A t \in FileStems :
            /\ IsPrefix(hist.before[t], files[t])
            /\ IF files[t] = hist.before[t]
               THEN TRUE
               ELSE /\ Parsed /\ Candidates # {}
                    /\ Appended(t) = (IF Exists(hist.before, t)
                                      THEN <<>>
                                      ELSE <<HeaderLine(hist.payload.header, TickerPosition)>>)
                                        \o LinesFrom(1, t)

\* C2 witness: the second call appended to A.csv a line equal to the one the
\* first call had written.
C2_Witness ==
    /\ hist.calls = 2
    /\ Len(hist.before["A"]) = 2
    /\ Len(files["A"]) = 3
    /\ files["A"][3] = files["A"][2]

\* The ticker values that name a file directly in save_dir.
PlainTickers == {"A", "B"}

\* C7: a file whose header holds a candidate name is processed successfully,
\* its rows grouped by the candidate that comes first in the list; a file
\* whose header holds none is skipped. (Stated for the files with rows all
\* of whose cells in that column are plain ticker values.)
C7_FirstCandidateGroups ==
    (Parsed /\ SourceRows # {}) =>
        IF Candidates = {}
        THEN ~result.success /\ files = hist.before
        ELSE (\A k \in SourceRows : TickerOf(k) \in PlainTickers) =>
                /\ result.success
                /\ \A t \in FileStems :
                      Appended(t) # <<>> => \E k \in SourceRows : FileOf(TickerOf(k)) = t
                /\ \A k \in SourceRows : LineOf(k) \in Range(Appended(FileOf(TickerOf(k))))

\* C10: a process_csv_file call that returns success False has left every
\* output file as it was: a call that created or changed a file returns
\* success True.
C10_FailureWritesNothing ==
    Called => (files # hist.before => result.success)

\* C10 witness: a call that failed in groupby, after an earlier call had
\* written a file.
C10_Witness ==
    /\ hist.calls = 2
    /\ ~result.success
    /\ result.cause = "groupby"
    /\ hist.written # {}

-----------------------------------------------------------------------------
(* Properties of the run loop *)

\* The download requests started so far.
Downloads == SelectSeq(hist.requests, LAMBDA q : q.stage = "download")

\* The download requests of the first n discovered files, in list order.
DownloadsOf(n) == [k \in 1..n |-> [stage |-> "download", node |-> csv_files[k].download_url]]

\* The "Processed" and "Skipped" messages about the file at position k.
Reports(k) == {j \in 1..Len(out) : out[j].kind \in {"Processed", "Skipped"} /\ out[j].n = k}

\* C3: the run loop attempts every discovered file once, in list order,
\* whatever failed before: while it runs, the files before position i are
\* each counted as processed or as skipped and reported by one message;
\* once it is done, files processed + files skipped is the number of
\* discovered files, and the summary prints these counts.
C3_EveryFileAttempted ==
    /\ pc = "loop" =>
          /\ Downloads = DownloadsOf(i)
          /\ total_processed + total_errors = i - 1
          /\ \A k \in 1..(i - 1) : Cardinality(Reports(k)) = 1
    /\ pc = "done" =>
          /\ Downloads = DownloadsOf(Len(csv_files))
          /\ total_processed + total_errors = Len(csv_files)
          /\ \A k \in 1..Len(csv_files) : Cardinality(Reports(k)) = 1
          /\ total_errors = Cardinality({j \in 1..Len(out) : out[j].kind = "Skipped"})
          /\ Msg("Files processed", total_processed, "") \in Range(out)
          /\ Msg("Files skipped", total_errors, "") \in Range(out)

\* C3 witness: a finished run whose first file was skipped because its
\* download ran out of retries and whose second file was processed.
C3_Witness ==
    /\ pc = "done"
    /\ Len(csv_files) = 2
    /\ \E e \in hist.exhausted : e.stage = "download" /\ e.node = csv_files[1].download_url
    /\ Msg("Skipped", 1, "Error processing") \in Range(out)
    /\ \E j \in 1..Len(out) : out[j].kind = "Processed" /\ out[j].n = 2

\* C9: the "Tickers saved" count of the summary is the number of distinct
\* ticker files written to during the run.
C9_TickersSavedCount ==
    pc = "done" =>
        /\ out[Len(out)].kind = "Tickers saved"
        /\ out[Len(out)].n = Cardinality(hist.written)

====
